---- MODULE Spec2Model ----
(***************************************************************************)
(* TrafficRoute (Volcengine) provider of ddns-go: the reconciliation run   *)
(* AddUpdateDomainRecords of src/dns/traffic_route.go, stepped at every    *)
(* provider call, against a provider that holds zones and records.         *)
(***************************************************************************)
EXTENDS Integers, Sequences, FiniteSets, TLC

\* ------------------------------------------------------------------ bounds
MaxRuns == 2
MaxDomains == 2
MaxZones == 2
MaxInitRecords == 2

\* --------------------------------------------------------------- constants
DefaultTTL == 600

UpdatedNothing == "Nothing"
UpdatedFailed == "Failed"
UpdatedSuccess == "Success"

\* ----------------------------------------------------------- input domains
SeqsNoRep(S, n) ==
  {s \in UNION {[1..k -> S] : k \in 0..n} :
     \A i, j \in 1..Len(s) : i # j => s[i] # s[j]}

\* the zero value of TrafficRouteRecord
TrafficRouteRecord ==
  [ZID |-> 0, RecordID |-> 0, Host |-> "", TTL |-> 0, Type |-> "",
   Line |-> "", Value |-> ""]

ZonePool ==
  {[ZID |-> 1, ZoneName |-> "a.com"], [ZID |-> 2, ZoneName |-> "b.org"]}

\* configured domains; CustomParams is the map of the domain's custom
\* parameters (with or without a Line)
DomainPool ==
  {[DomainName |-> "a.com", SubDomain |-> "www",
    CustomParams |-> [k \in {"Line"} |-> "Telecom"]],
   [DomainName |-> "b.org", SubDomain |-> "www", CustomParams |-> << >>]}

\* records the provider may hold before the first run (RecordID set by Init)
RecordPool ==
  << [TrafficRouteRecord EXCEPT !.ZID = 1, !.Host = "www", !.Type = "A",
        !.Line = "Default", !.Value = "9.9.9.9", !.TTL = 60],
     [TrafficRouteRecord EXCEPT !.ZID = 1, !.Host = "www", !.Type = "A",
        !.Line = "Telecom", !.Value = "9.9.9.9", !.TTL = 60],
     [TrafficRouteRecord EXCEPT !.ZID = 1, !.Host = "www", !.Type = "A",
        !.Line = "Default", !.Value = "1.1.1.1", !.TTL = 60],
     [TrafficRouteRecord EXCEPT !.ZID = 1, !.Host = "mail", !.Type = "A",
        !.Line = "Default", !.Value = "9.9.9.9", !.TTL = 60],
     [TrafficRouteRecord EXCEPT !.ZID = 2, !.Host = "www", !.Type = "A",
        !.Line = "Default", !.Value = "9.9.9.9", !.TTL = 60] >>

Ipv4Addrs == {"", "1.1.1.1"}
Ipv6Addrs == {"", "::1"}
TTLConfs == {"", "300", "abc"}

VARIABLES
  zones,       \* provider: the account's zones, in the order it returns them
  records,     \* provider: every record it holds
  dnsConf,     \* configuration handed to Init
  Domains,     \* tr.Domains: addresses and the per-type domain lists
  TTL,         \* tr.TTL
  pc,          \* position of the run
  run,         \* number of runs started
  recordType,  \* the pass being run
  idx,         \* index of the domain of the for loop of a pass
  zoneID,      \* local zoneID
  listing,     \* local status.Result.Records
  ri,          \* index of the for loop of modify
  calls,       \* history: provider calls issued for the current domain
  visited,     \* history: domains of this pass that had a zone lookup
  ok,          \* history: every call of this run succeeded so far
  wrote,       \* history: this run issued a create or an update call
  prevOk       \* history: every call of the previous run succeeded

vars == <<zones, records, dnsConf, Domains, TTL, pc, run, recordType, idx,
          zoneID, listing, ri, calls, visited, ok, wrote, prevOk>>

\* ------------------------------------------------------- config.Domains
\* (config package: the per-type address and domain list of tr.Domains)
GetNewIpResult(D, rt) ==
  IF rt = "AAAA" THEN [ipAddr |-> D.Ipv6Addr, domains |-> D.Ipv6Domains]
  ELSE [ipAddr |-> D.Ipv4Addr, domains |-> D.Ipv4Domains]

GetSubDomain(domain) == domain.SubDomain

GetCustomParams(domain) == domain.CustomParams

\* getLine: the Line custom parameter of the domain, or the default line
\* (no caller in the program)
getLine(domain) ==
  IF "Line" \in DOMAIN GetCustomParams(domain)
  THEN GetCustomParams(domain)["Line"]
  ELSE "默认"

\* GetNewIp: the domains of a run are built anew, with no status yet
GetNewIp(D) ==
  LET fresh(ds) == [i \in 1..Len(ds) |->
                      [ds[i] EXCEPT !.UpdateStatus = UpdatedNothing]]
  IN [D EXCEPT !.Ipv4Domains = fresh(@), !.Ipv6Domains = fresh(@)]

SetStatus_mut(D, rt, i, st) ==
  LET all(ds) == [k \in 1..Len(ds) |-> [ds[k] EXCEPT !.UpdateStatus = st]]
  IN IF rt = "AAAA" THEN [D EXCEPT !.Ipv6Domains = all(@)]
     ELSE [D EXCEPT !.Ipv4Domains = all(@)]

\* domain.UpdateStatus = st for element i of the list of the record type
SetStatus(D, rt, i, st) ==
  IF rt = "AAAA" THEN [D EXCEPT !.Ipv6Domains[i].UpdateStatus = st]
  ELSE [D EXCEPT !.Ipv4Domains[i].UpdateStatus = st]

\* strconv.Atoi on the configured TTL strings
Atoi(s) ==
  CASE s = "300" -> [err |-> FALSE, val |-> 300]
    [] OTHER -> [err |-> TRUE, val |-> 0]

\* Init: tr.TTL from dnsConf.TTL
InitTTL(conf) ==
  IF conf.TTL = "" THEN DefaultTTL
  ELSE IF Atoi(conf.TTL).err THEN DefaultTTL ELSE Atoi(conf.TTL).val

\* ------------------------------------------------------------- provider
\* ListZones: the zones of the account that match the query (all of them
\* when the query names no zone)
ProviderListZones(query) ==
  IF "ZoneName" \in DOMAIN query
  THEN LET match(z) == z.ZoneName = query.ZoneName IN SelectSeq(zones, match)
  ELSE zones

\* ListRecords: the records that match every parameter of the query
ProviderListRecords(query) ==
  LET match(r) == /\ ("ZID" \in DOMAIN query => r.ZID = query.ZID)
                  /\ ("Host" \in DOMAIN query => r.Host = query.Host)
                  /\ ("Type" \in DOMAIN query => r.Type = query.Type)
  IN SelectSeq(records, match)

\* CreateRecord: a new record with a new identifier
ProviderCreate(rs, body) ==
  Append(rs, [body EXCEPT !.RecordID = Len(rs) + 1])

\* UpdateRecord: the record of that identifier takes the fields of the body
ProviderUpdate(rs, body) ==
  [i \in 1..Len(rs) |->
     IF rs[i].RecordID = body.RecordID
     THEN [rs[i] EXCEPT !.Host = body.Host, !.Type = body.Type,
                        !.Line = body.Line, !.Value = body.Value,
                        !.TTL = body.TTL]
     ELSE rs[i]]

\* --------------------------------------------------------------- request
\* the query parameters request() signs: only ListRecords has any, and
\* only the ZID of the marshalled record
QueryParam(action, data) ==
  IF action # "ListRecords" THEN << >>
  ELSE [k \in {"ZID"} |-> data.ZID]

\* the decoded ListZones response that carries the provider's answer
ZonesAnswer ==
  LET zs == ProviderListZones(QueryParam("ListZones", TrafficRouteRecord))
  IN [err |-> FALSE, Total |-> Len(zs), Zones |-> zs]

\* decoded ListZones responses: a failed request, a vendor answer without
\* a result, the zones with their count, the count without the zone list
listZonesResponses ==
  {[err |-> TRUE, Total |-> 0, Zones |-> << >>],
   [err |-> FALSE, Total |-> 0, Zones |-> << >>],
   ZonesAnswer,
   [ZonesAnswer EXCEPT !.Zones = << >>]}

\* decoded ListRecords responses: a failed request, a vendor error (no
\* result, so a nil record list), the records with their count and, for a
\* zone without records, the answer whose record list is absent (nil)
listRecordsResponses(record) ==
  LET rs == ProviderListRecords(QueryParam("ListRecords", record))
      none == [err |-> FALSE, vendorErr |-> FALSE, TotalCount |-> 0,
               RecordsNil |-> TRUE, Records |-> << >>]
  IN {[none EXCEPT !.err = TRUE],
      [none EXCEPT !.vendorErr = TRUE],
      [none EXCEPT !.TotalCount = Len(rs), !.RecordsNil = FALSE,
                   !.Records = rs]}
     \cup (IF Len(rs) = 0 THEN {none} ELSE {})

\* outcomes of a write: request error, vendor-reported failure, success
WriteOutcomes == {"err", "fail", "ok"}

Call(action, record, old, result) ==
  [action |-> action, record |-> record, old |-> old, result |-> result]

IsWrite(c) == c.action \in {"CreateRecord", "UpdateRecord"}

\* ------------------------------------------------------------ the program
CurDomains == GetNewIpResult(Domains, recordType).domains
CurIP == GetNewIpResult(Domains, recordType).ipAddr
CurDomain == CurDomains[idx]

\* state after construction: a provider account, a configuration, no run yet
Init ==
  /\ zones \in SeqsNoRep(ZonePool, MaxZones)
  /\ \E sel \in SeqsNoRep(1..Len(RecordPool), MaxInitRecords) :
       /\ \A i \in 1..(Len(sel) - 1) : sel[i] < sel[i + 1]
       /\ records = [i \in 1..Len(sel) |->
                       [RecordPool[sel[i]] EXCEPT !.RecordID = i]]
  /\ dnsConf \in [TTL : TTLConfs]
  /\ \E ds \in SeqsNoRep(DomainPool, MaxDomains), a4 \in Ipv4Addrs,
        a6 \in Ipv6Addrs :
       /\ Len(ds) > 0
       /\ LET doms == [i \in 1..Len(ds) |->
                         [DomainName |-> ds[i].DomainName,
                          SubDomain |-> ds[i].SubDomain,
                          CustomParams |-> ds[i].CustomParams,
                          UpdateStatus |-> UpdatedNothing]]
          IN Domains = [Ipv4Addr |-> a4, Ipv6Addr |-> a6,
                        Ipv4Domains |-> doms, Ipv6Domains |-> doms]
  /\ TTL = 0
  /\ pc = "idle"
  /\ run = 0
  /\ recordType = "A"
  /\ idx = 0
  /\ zoneID = 0
  /\ listing = << >>
  /\ ri = 0
  /\ calls = << >>
  /\ visited = {}
  /\ ok = TRUE
  /\ wrote = FALSE
  /\ prevOk = FALSE

\* Init(dnsConf, ...) then the entry of AddUpdateDomainRecords
TRInit ==
  /\ pc = "idle"
  /\ run < MaxRuns
  /\ run' = run + 1
  /\ Domains' = GetNewIp(Domains)
  /\ TTL' = InitTTL(dnsConf)
  /\ recordType' = "A"
  /\ pc' = "pass"
  /\ prevOk' = (run > 0 /\ ok)
  /\ ok' = TRUE
  /\ wrote' = FALSE
  /\ calls' = << >>
  /\ visited' = {}
  /\ idx' = 0
  /\ UNCHANGED <<zones, records, dnsConf, zoneID, listing, ri>>

SkipPass_mut(ipAddr) == FALSE

\* addUpdateDomainRecords: a pass without an address is skipped
SkipPass(ipAddr) == ipAddr = ""

\* addUpdateDomainRecords(recordType): the address, and the skip of the pass
PassEntry ==
  /\ pc = "pass"
  /\ idx' = 0
  /\ calls' = << >>
  /\ visited' = {}
  /\ pc' = IF SkipPass(CurIP) THEN "ret" ELSE "next"
  /\ UNCHANGED <<zones, records, dnsConf, Domains, TTL, run, recordType,
                 zoneID, listing, ri, ok, wrote, prevOk>>

\* for _, domain := range domains
RangeDomains ==
  /\ pc = "next"
  /\ IF idx < Len(CurDomains)
     THEN /\ idx' = idx + 1
          /\ calls' = << >>
          /\ pc' = "zones"
     ELSE /\ pc' = "ret"
          /\ UNCHANGED <<idx, calls>>
  /\ UNCHANGED <<zones, records, dnsConf, Domains, TTL, run, recordType,
                 zoneID, listing, ri, visited, ok, wrote, prevOk>>

\* where the pass goes after a failed zone lookup or listing of a domain
AfterLookupFailure == "ret"

\* the zone lookup of a domain and the choice of its zone
ResolveZone ==
  /\ pc = "zones"
  /\ \E resp \in listZonesResponses :
       /\ calls' = Append(calls, Call("ListZones", TrafficRouteRecord,
                                      TrafficRouteRecord,
                                      IF resp.err THEN "err"
                                      ELSE IF Len(resp.Zones) = 0
                                      THEN "nozones" ELSE "ok"))
       /\ visited' = visited \cup {idx}
       /\ ok' = (ok /\ resp = ZonesAnswer)
       /\ IF resp.err \/ resp.Total = 0
          THEN /\ Domains' = SetStatus(Domains, recordType, idx, UpdatedFailed)
               /\ pc' = AfterLookupFailure
               /\ UNCHANGED zoneID
          ELSE IF Len(resp.Zones) = 0
          THEN \* resp.Result.Zones[0]: index out of range
               /\ pc' = "panic"
               /\ UNCHANGED <<Domains, zoneID>>
          ELSE /\ zoneID' = resp.Zones[1].ZID
               /\ pc' = "records"
               /\ UNCHANGED Domains
  /\ UNCHANGED <<zones, records, dnsConf, TTL, run, recordType, idx, listing,
                 ri, wrote, prevOk>>

\* the record of the ListRecords request
ListRecordsData(zid) == [TrafficRouteRecord EXCEPT !.ZID = zid]

ListingFailed_mut(resp) == resp.err

\* the listing failed: request error, or no record list in the answer
ListingFailed(resp) == resp.err \/ resp.RecordsNil

Decide_mut(resp) == "create"

\* modify when the listing counts records, create when it counts none
Decide(resp) == IF resp.TotalCount > 0 THEN "modify" ELSE "create"

\* the listing of the zone's records and the choice of create or modify
LocateRecords ==
  /\ pc = "records"
  /\ \E resp \in listRecordsResponses(ListRecordsData(zoneID)) :
       /\ calls' = Append(calls, Call("ListRecords", ListRecordsData(zoneID),
                                      TrafficRouteRecord,
                                      IF resp.err THEN "err"
                                      ELSE IF resp.vendorErr THEN "fail"
                                      ELSE IF resp.RecordsNil THEN "absent"
                                      ELSE "ok"))
       /\ ok' = (ok /\ ~resp.err /\ ~resp.RecordsNil)
       /\ IF ListingFailed(resp)
          THEN /\ Domains' = SetStatus(Domains, recordType, idx, UpdatedFailed)
               /\ pc' = AfterLookupFailure
               /\ UNCHANGED <<listing, ri>>
          ELSE /\ listing' = resp.Records
               /\ ri' = 1
               /\ pc' = Decide(resp)
               /\ UNCHANGED Domains
  /\ UNCHANGED <<zones, records, dnsConf, TTL, run, recordType, idx, zoneID,
                 visited, wrote, prevOk>>

\* the record create() sends
CreateData(zid, domain, rt, ipAddr) ==
  [TrafficRouteRecord EXCEPT !.ZID = zid, !.Host = GetSubDomain(domain),
                             !.Type = rt, !.Value = ipAddr, !.TTL = TTL]

\* create: one CreateRecord call and the status it leaves
Create ==
  /\ pc = "create"
  /\ \E out \in WriteOutcomes :
       LET data == CreateData(zoneID, CurDomain, recordType, CurIP) IN
       /\ calls' = Append(calls, Call("CreateRecord", data,
                                      TrafficRouteRecord, out))
       /\ ok' = (ok /\ out = "ok")
       /\ records' = IF out = "ok" THEN ProviderCreate(records, data)
                     ELSE records
       /\ Domains' = SetStatus(Domains, recordType, idx,
                               IF out = "ok" THEN UpdatedSuccess
                               ELSE UpdatedFailed)
  /\ wrote' = TRUE
  /\ pc' = "next"
  /\ UNCHANGED <<zones, dnsConf, TTL, run, recordType, idx, zoneID, listing,
                 ri, visited, prevOk>>

NoChange_mut(record, ipAddr) == FALSE

NoChange_inverted(record, ipAddr) == record.Value # ipAddr

\* modify: a record that already holds the address is left alone
NoChange(record, ipAddr) == record.Value = ipAddr

\* the record modify() sends for a listed record
ModifyData(record, domain, rt, ipAddr) ==
  [record EXCEPT !.Host = GetSubDomain(domain), !.Type = rt,
                 !.Line = "Default", !.Value = ipAddr, !.TTL = TTL]

\* where modify goes after an UpdateRecord call, by its outcome
AfterUpdate(out) == IF out = "err" THEN "next" ELSE "modify"

\* the status modify leaves after an UpdateRecord call, given the status
\* the domain had
StatusAfterUpdate(before, out) ==
  IF out = "ok" THEN UpdatedSuccess ELSE UpdatedFailed

\* modify: one iteration of the loop over the listed records
ModifyRecord ==
  /\ pc = "modify"
  /\ ri <= Len(listing)
  /\ IF NoChange(listing[ri], CurIP)
     THEN /\ ri' = ri + 1
          /\ UNCHANGED <<records, Domains, pc, calls, ok, wrote>>
     ELSE \E out \in WriteOutcomes :
            LET data == ModifyData(listing[ri], CurDomain, recordType, CurIP)
            IN
            /\ calls' = Append(calls, Call("UpdateRecord", data,
                                           listing[ri], out))
            /\ ok' = (ok /\ out = "ok")
            /\ wrote' = TRUE
            /\ records' = IF out = "ok" THEN ProviderUpdate(records, data)
                          ELSE records
            /\ Domains' = SetStatus(Domains, recordType, idx,
                             StatusAfterUpdate(CurDomain.UpdateStatus, out))
            /\ pc' = AfterUpdate(out)
            /\ ri' = ri + 1
  /\ UNCHANGED <<zones, dnsConf, TTL, run, recordType, idx, zoneID, listing,
                 visited, prevOk>>

\* modify: the loop over the listed records ends
ModifyDone ==
  /\ pc = "modify"
  /\ ri > Len(listing)
  /\ pc' = "next"
  /\ UNCHANGED <<zones, records, dnsConf, Domains, TTL, run, recordType, idx,
                 zoneID, listing, ri, calls, visited, ok, wrote, prevOk>>

\* AddUpdateDomainRecords: the A pass returned, the AAAA pass starts
NextPass ==
  /\ pc = "ret"
  /\ recordType = "A"
  /\ recordType' = "AAAA"
  /\ pc' = "pass"
  /\ UNCHANGED <<zones, records, dnsConf, Domains, TTL, run, idx, zoneID,
                 listing, ri, calls, visited, ok, wrote, prevOk>>

\* AddUpdateDomainRecords: return tr.Domains
Return ==
  /\ pc = "ret"
  /\ recordType = "AAAA"
  /\ pc' = "idle"
  /\ UNCHANGED <<zones, records, dnsConf, Domains, TTL, run, recordType, idx,
                 zoneID, listing, ri, calls, visited, ok, wrote, prevOk>>

Next ==
  \/ TRInit
  \/ PassEntry
  \/ RangeDomains
  \/ ResolveZone
  \/ LocateRecords
  \/ Create
  \/ ModifyRecord
  \/ ModifyDone
  \/ NextPass
  \/ Return

Spec == Init /\ [][Next]_vars

TypeOK ==
  /\ pc \in {"idle", "pass", "next", "zones", "records", "create", "modify",
             "ret", "panic"}
  /\ run \in 0..MaxRuns
  /\ recordType \in {"A", "AAAA"}

\* ---------------------------------------------------------------- claims
\* the processing of domain idx of the running pass has ended
DomainDone == pc \in {"next", "ret"} /\ idx >= 1

HasCall(action, result) ==
  \E i \in 1..Len(calls) : calls[i].action = action /\ calls[i].result = result

CallsOf(action) == {i \in 1..Len(calls) : calls[i].action = action}

WriteCalls == {i \in 1..Len(calls) : IsWrite(calls[i])}

\* the listing of the current domain succeeded; listing holds its records
Listed == HasCall("ListRecords", "ok")

StaleListed == {i \in 1..Len(listing) : listing[i].Value # CurIP}

\* the zone used for the current domain is the zone of its root domain, and
\* every listed record is a record of its host and of the type of the pass
OwnZoneAndRecords ==
  /\ \E k \in 1..Len(zones) :
        zones[k].ZID = zoneID /\ zones[k].ZoneName = CurDomain.DomainName
  /\ \A i \in 1..Len(listing) :
        /\ listing[i].Host = GetSubDomain(CurDomain)
        /\ listing[i].Type = recordType

\* C1: when a pass over a non-empty address returns, every domain of its
\* list has had its own zone lookup, whatever failed for an earlier domain.
C1_EveryDomainLookedUp ==
  (pc = "ret" /\ CurIP # "") => visited = 1..Len(CurDomains)

\* C2: once a domain whose zone resolved and whose listing succeeded (its
\* own zone, its own records) has been processed with at least one write call, its status is Success exactly when every one of
\* its write calls succeeded, and Failed as soon as one of them failed.
C2_StatusReflectsEveryWrite ==
  (DomainDone /\ Listed /\ OwnZoneAndRecords /\ WriteCalls # {}) =>
     /\ (CurDomain.UpdateStatus = UpdatedSuccess
           <=> \A i \in WriteCalls : calls[i].result = "ok")
     /\ ((\E i \in WriteCalls : calls[i].result # "ok")
           => CurDomain.UpdateStatus = UpdatedFailed)

\* the listed records of the current domain all hold the desired address
AllListedCurrent ==
  /\ Listed
  /\ Len(listing) > 0
  /\ StaleListed = {}

C4_OneUpdatePerStaleRecord ==
  (DomainDone /\ Listed /\ OwnZoneAndRecords /\ Len(listing) > 0) =>
     Cardinality(CallsOf("UpdateRecord")) = Cardinality(StaleListed)

\* C5: every UpdateRecord call issued for (domain, type) targets a record
\* the provider holds under that domain's host and that type.
C5_UpdatesOnlyOwnHostAndType ==
  \A i \in CallsOf("UpdateRecord") :
     /\ calls[i].old.Host = GetSubDomain(CurDomain)
     /\ calls[i].old.Type = recordType

\* C6: a run that follows a run in which every call succeeded issues no
\* create and no update call.
C6_SecondRunWritesNothing ==
  (run >= 2 /\ prevOk) => ~wrote

\* the listing of the current domain holds no record of its host and type
NoneListedForDomain ==
  /\ Listed
  /\ \A i \in 1..Len(listing) :
        ~(listing[i].Host = GetSubDomain(CurDomain)
            /\ listing[i].Type = recordType)

\* C7: a processed domain with no existing record of its host and type had
\* exactly one CreateRecord call, with its host, the type, the desired
\* address and the configured TTL, and no UpdateRecord call.
C7_ExactlyOneCreate ==
  (DomainDone /\ NoneListedForDomain) =>
     /\ CallsOf("UpdateRecord") = {}
     /\ Cardinality(CallsOf("CreateRecord")) = 1
     /\ \A i \in CallsOf("CreateRecord") :
          /\ calls[i].record.Host = GetSubDomain(CurDomain)
          /\ calls[i].record.Type = recordType
          /\ calls[i].record.Value = CurIP
          /\ calls[i].record.TTL = InitTTL(dnsConf)

\* C8: the zone ID of every ListRecords, CreateRecord and UpdateRecord call
\* of a domain is the ID of a zone named as the domain's root domain.
C8_ZoneOfOwnRootDomain ==
  \A i \in 1..Len(calls) :
     calls[i].action # "ListZones" =>
        \E k \in 1..Len(zones) :
           /\ zones[k].ZID = calls[i].record.ZID
           /\ zones[k].ZoneName = CurDomain.DomainName

\* C9: a domain whose zone lookup returned no zones has no further call and
\* has status Failed.
C9_NoZonesMeansFailedAndNoCalls ==
  HasCall("ListZones", "nozones") =>
     Len(calls) = 1 /\ CurDomain.UpdateStatus = UpdatedFailed

\* C10: no run aborts: indexing the first zone of an empty zone list never
\* happens.
C10_NeverAborts == pc # "panic"

\* the AAAA pass has not started yet in this run
InAPass == recordType = "A" /\ pc \in {"pass", "next", "zones", "records",
                                       "create", "modify", "ret"}

\* what the AAAA pass does for a domain when every call is answered: nothing
\* without a zone, one create in a zone without records, otherwise one update
\* per record of the zone that does not hold the IPv6 address
AAAAPlan(rs) ==
  IF Len(zones) = 0 THEN [create |-> FALSE, update |-> {}]
  ELSE LET inZone == {i \in 1..Len(rs) : rs[i].ZID = zones[1].ZID} IN
       [create |-> inZone = {},
        update |-> {rs[i].RecordID : i \in {j \in inZone :
                       rs[j].Value # Domains.Ipv6Addr}}]

\* C11: when the A pass has returned the AAAA pass starts, whatever the A
\* pass's outcomes, and no step of the A pass changes what the AAAA pass
\* does for its domains.
C11_AAAAPassIndependentOfAPass ==
  [][/\ (pc = "ret" /\ recordType = "A")
          => (pc' = "pass" /\ recordType' = "AAAA")
     /\ (InAPass /\ Domains.Ipv6Addr # "")
          => AAAAPlan(records') = AAAAPlan(records)]_vars

\* the first half of C11 alone: the AAAA pass follows every returned A pass
AAAAPassFollows ==
  [][(pc = "ret" /\ recordType = "A")
        => (pc' = "pass" /\ recordType' = "AAAA")]_vars

StatusesOf(rt) ==
  LET ds == GetNewIpResult(Domains, rt).domains
  IN {ds[i].UpdateStatus : i \in 1..Len(ds)}

\* C12: a pass whose desired address is empty goes straight to its return
\* without any provider call, and the domains of a type whose address is
\* empty never get a status written.
C12_EmptyAddressSkipsPass ==
  /\ (CurIP = "" /\ pc \notin {"idle", "pass"}) =>
        (pc = "ret" /\ calls = << >> /\ visited = {})
  /\ \A rt \in {"A", "AAAA"} :
        GetNewIpResult(Domains, rt).ipAddr = ""
           => StatusesOf(rt) \subseteq {UpdatedNothing}

\* the AAAA pass was skipped after an A pass that wrote statuses
C12_Witness ==
  /\ pc = "ret" /\ recordType = "AAAA" /\ CurIP = ""
  /\ wrote
  /\ UpdatedSuccess \in StatusesOf("A")

\* the default routing line, under either of its names
DefaultLines == {"Default", "默认"}

\* C13: every CreateRecord and UpdateRecord call of a domain carries the
\* domain's Line custom parameter when it has one, the default line if not.
C13_WritesCarryDomainLine ==
  \A i \in WriteCalls :
     IF "Line" \in DOMAIN GetCustomParams(CurDomain)
     THEN calls[i].record.Line = GetCustomParams(CurDomain)["Line"]
     ELSE calls[i].record.Line \in DefaultLines

\* listed records of the current domain that already hold the desired address
CurrentListed == {i \in 1..Len(listing) : listing[i].Value = CurIP}

ListedNothing ==
  /\ pc # "pass"
  /\ Len(calls) = 2
  /\ calls[2].action = "ListRecords"
  /\ \/ calls[2].result = "absent"
     \/ calls[2].result = "ok" /\ Len(listing) = 0

\* C15: after a listing answered without error that reports no record, the
\* domain is not marked Failed and the create step is next.
C15_EmptyListingGoesToCreate ==
  ListedNothing => (pc = "create" /\ CurDomain.UpdateStatus # UpdatedFailed)

\* C16: in the calls made for one domain and record type, ListZones is the
\* first call, ListRecords is the second and follows a ListZones that
\* answered a zone, and every CreateRecord or UpdateRecord comes after both a
\* ListZones that answered a zone and a ListRecords that answered the records.
C16_CallsInOrder ==
  \A i \in 1..Len(calls) :
     /\ calls[i].action = "ListZones" => i = 1
     /\ calls[i].action = "ListRecords"
          => /\ i = 2
             /\ calls[1].action = "ListZones" /\ calls[1].result = "ok"
     /\ IsWrite(calls[i])
          => /\ i >= 3
             /\ calls[1].action = "ListZones" /\ calls[1].result = "ok"
             /\ calls[2].action = "ListRecords" /\ calls[2].result = "ok"

C16_Witness ==
  /\ pc = "next"
  /\ CallsOf("CreateRecord") # {}
  /\ Len(calls) = 3

Actions == {"ListZones", "ListRecords", "CreateRecord", "UpdateRecord"}

SameButStatus(ds, es, own) ==
  /\ Len(es) = Len(ds)
  /\ \A k \in 1..Len(ds) :
        /\ es[k].DomainName = ds[k].DomainName
        /\ es[k].SubDomain = ds[k].SubDomain
        /\ es[k].CustomParams = ds[k].CustomParams
        /\ k \notin own => es[k].UpdateStatus = ds[k].UpdateStatus

\* C18: a step of a pass changes nothing of the domains but the UpdateStatus
\* of the domain being processed: the addresses, the other list, the other
\* domains of the list and the other fields of the domain stay as they were.
C18_OnlyOwnStatusWritten ==
  [][pc # "idle" =>
       /\ Domains'.Ipv4Addr = Domains.Ipv4Addr
       /\ Domains'.Ipv6Addr = Domains.Ipv6Addr
       /\ SameButStatus(Domains.Ipv4Domains, Domains'.Ipv4Domains,
                        IF recordType = "A" THEN {idx} ELSE {})
       /\ SameButStatus(Domains.Ipv6Domains, Domains'.Ipv6Domains,
                        IF recordType = "AAAA" THEN {idx} ELSE {})]_vars

C18_Witness ==
  /\ pc = "next"
  /\ idx = 2
  /\ CurDomains[1].UpdateStatus = UpdatedFailed
  /\ CurDomains[2].UpdateStatus = UpdatedSuccess

====
